---- MODULE Spec2Model ----
(***************************************************************************)
(* Swap order composition in AceVikings/cardano-hackathon.                 *)
(*                                                                         *)
(* Two programs of the repository are modelled, each under its own         *)
(* specification since each is deployed as a service of its own:           *)
(*                                                                         *)
(*   Spec       crewai-masumi-quickstart-template/tools.py: the tools      *)
(*              GetSwapQuoteTool and MinswapSwapTool, the latter run by    *)
(*              two invocations that share one wallet address.             *)
(*   SpecAgent  agents/swap_agent/crew_definition.py: swap_ada_to_min and  *)
(*              parse_amount_and_slippage.                                 *)
(*                                                                         *)
(* Numbers.  A decimal number of the program (a float argument, a number   *)
(* in a text) is held as an integer count of 1/DecScale, seven fractional  *)
(* digits: one more than the six digits of an atomic unit, so that         *)
(* rounding is visible.  The binary representation error of a float is     *)
(* not modelled: products are exact.                                       *)
(***************************************************************************)
EXTENDS Integers, Sequences, FiniteSets, TLC

VARIABLES
    env,        \* os.environ as MinswapSwapTool._run reads it
    utxos,      \* unspent outputs at the wallet address, as context.utxos lists them
    next_id,    \* id the chain gives to the next output created at the wallet address
    ledger,     \* transactions the chain accepted, in order
    quote,      \* what GetSwapQuoteTool._run last returned
    pc,         \* per invocation of MinswapSwapTool._run: where it stands
    args,       \* per invocation: the arguments of _run
    order,      \* per invocation: datum and value of the output built at lines 168-212
    tx,         \* per invocation: signed_tx of line 215
    result,     \* per invocation: the value _run returned
    submits,    \* per invocation: calls of context.submit_tx so far
    a_text,     \* swap_ada_to_min: the text argument
    a_payload,  \* swap_ada_to_min: the payload posted to the swap service
    a_resp,     \* swap_ada_to_min: what the HTTP call gave
    a_result,   \* swap_ada_to_min: the result dict that is dumped as JSON
    bot_token,  \* TelegramBotAgent.bot_token
    chat_ids,   \* TelegramBotAgent.chat_ids
    k_pc,       \* CrewShim.kickoff: where it stands
    k_text,     \* CrewShim.kickoff: inputs.get("text")
    k_summary,  \* CrewShim.kickoff: summary
    k_index,    \* send_summary: position of the loop in chat_list
    k_results,  \* send_summary: results
    k_posts,    \* send_summary: the calls of httpx.post so far, with what each gave
    k_outcome   \* CrewShim.kickoff: the payload returned or the exception raised

toolVars == <<env, utxos, next_id, ledger, quote, pc, args, order, tx, result, submits>>
agentVars == <<a_text, a_payload, a_resp, a_result>>
telegramVars == <<bot_token, chat_ids, k_pc, k_text, k_summary, k_index, k_results,
                  k_posts, k_outcome>>
vars == <<env, utxos, next_id, ledger, quote, pc, args, order, tx, result, submits,
          a_text, a_payload, a_resp, a_result,
          bot_token, chat_ids, k_pc, k_text, k_summary, k_index, k_results,
          k_posts, k_outcome>>

\* Python's None, and the value of a variable not yet assigned
None == [none |-> TRUE]

-----------------------------------------------------------------------------
(* Numbers *)

AtomicPerMajor == 1000000

\* resolution of a decimal number of the model: seven fractional digits
DecScale == 10 * AtomicPerMajor

\* the decimal number n (n whole units)
Whole(n) == n * DecScale

\* int(x * 1_000_000) for a decimal x >= 0: x * 1_000_000 is x / (DecScale / 1_000_000)
\* exactly, and int() drops the fraction
IntOfMillionTimes(x) == x \div (DecScale \div AtomicPerMajor)

\* int(round(x * 1_000_000)) for a decimal x >= 0: Python's round() goes to the
\* nearest integer and to the even one on a tie
IntOfRoundMillionTimes(x) ==
    LET d == DecScale \div AtomicPerMajor
        q == x \div d
        r == x % d
    IN  IF 2 * r < d THEN q
        ELSE IF 2 * r > d THEN q + 1
        ELSE IF q % 2 = 0 THEN q ELSE q + 1

\* int(round(x)) for a decimal x >= 0
IntOfRound(x) ==
    LET q == x \div DecScale
        r == x % DecScale
    IN  IF 2 * r < DecScale THEN q
        ELSE IF 2 * r > DecScale THEN q + 1
        ELSE IF q % 2 = 0 THEN q ELSE q + 1

-----------------------------------------------------------------------------
(* Values: pycardano's Value, lovelace (coin) and the one token of the     *)
(* wallet, MIN.  A quantity of 0 stands for an absent entry.               *)

Value(c, m) == [coin |-> c, min |-> m]

ZeroValue == Value(0, 0)

VAdd(a, b) == Value(a.coin + b.coin, a.min + b.min)

VSub(a, b) == Value(a.coin - b.coin, a.min - b.min)

\* Value.__le__: every quantity of a is at most that of b
VLeq(a, b) == a.coin <= b.coin /\ a.min <= b.min

RECURSIVE SumValues(_)
SumValues(s) ==
    IF s = <<>> THEN ZeroValue ELSE VAdd(Head(s).amount, SumValues(Tail(s)))

Front(s) == SubSeq(s, 1, Len(s) - 1)

Last(s) == s[Len(s)]

Ids(s) == {s[i].id : i \in 1..Len(s)}

-----------------------------------------------------------------------------
(* Bounds and the inputs the model draws from *)

\* most outputs the wallet address holds at the start
MaxUtxos == 2

\* lovelace a change output must hold at least (the chain's minimum for an output)
MinLovelace == 1000000

\* fees the chain context may estimate for the swap transaction
FeeSet == {170000}

Procs == {1, 2}

UtxoValues ==
    { Value(14 * AtomicPerMajor, 0),
      Value(14500000, 0),
      Value(50 * AtomicPerMajor, 0),
      Value(4500000, 10 * AtomicPerMajor) }

\* the listings context.utxos(address) may give at the start: ids by position
Wallets ==
    UNION { { [i \in 1..n |-> [id |-> i, amount |-> f[i]]] : f \in [1..n -> UtxoValues] }
            : n \in 0..MaxUtxos }

Envs ==
    [project_id : {"", "project"},
     mnemonic : {"", "not a mnemonic", "words"},
     network : {"preprod", "mainnet"}]

\* arguments of MinswapSwapTool._run: amount is a decimal, slippage a percentage
Requests ==
    { [from_token |-> "ADA", to_token |-> "MIN", amount |-> Whole(10), slippage |-> 5],
      [from_token |-> "ADA", to_token |-> "MIN", amount |-> 12345678, slippage |-> 0],
      [from_token |-> "ADA", to_token |-> "ADA", amount |-> Whole(10), slippage |-> 5],
      [from_token |-> "MIN", to_token |-> "ADA", amount |-> Whole(10), slippage |-> 5],
      [from_token |-> "BTC", to_token |-> "MIN", amount |-> Whole(10), slippage |-> 5] }

\* results the quote service may report for a swap
QuoteResults == {100}

-----------------------------------------------------------------------------
(* GetSwapQuoteTool._run: one HTTP call; a 200 answer carries the result,  *)
(* anything else (another status, an exception) gives a failure text.      *)

NoQuote == [status |-> "none", result |-> 0]

GetSwapQuote ==
    /\ \/ \E r \in QuoteResults : quote' = [status |-> "ok", result |-> r]
       \/ quote' = [status |-> "failed", result |-> 0]
    /\ UNCHANGED <<env, utxos, next_id, ledger, pc, args, order, tx, result, submits>>
    /\ UNCHANGED <<agentVars, telegramVars>>

-----------------------------------------------------------------------------
(* MinswapSwapTool._run, lines 105-212: configuration, wallet, assets,     *)
(* datum and the output to the order address.  Nothing here reads the      *)
(* chain.                                                                  *)

BatcherFee == 2000000

Deposit == 2000000

\* a preparation that takes every token other than MIN for ADA
PrepareAssetsAnyToken(req) ==
    IF req.from_token = "MIN"
    THEN [in_unit |-> "MIN", in_quantity |-> IntOfMillionTimes(req.amount),
          out_unit |-> "lovelace", out_quantity |-> 0]
    ELSE [in_unit |-> "lovelace", in_quantity |-> IntOfMillionTimes(req.amount),
          out_unit |-> "MIN", out_quantity |-> 0]

\* lines 144-154: None for a from_token that is neither ADA nor MIN.  The
\* quantity of out_assets is the literal 0 whatever to_token and slippage are.
PrepareAssets(req) ==
    IF req.from_token = "ADA"
    THEN [in_unit |-> "lovelace", in_quantity |-> IntOfMillionTimes(req.amount),
          out_unit |-> "MIN", out_quantity |-> 0]
    ELSE IF req.from_token = "MIN"
    THEN [in_unit |-> "MIN", in_quantity |-> IntOfMillionTimes(req.amount),
          out_unit |-> "lovelace", out_quantity |-> 0]
    ELSE None

\* lines 168-175, MinswapOrderDatum.create_datum: the swap step asks for the unit
\* of out_assets and at least its quantity
CreateDatum(assets) ==
    [sender |-> "wallet", receiver |-> "wallet",
     desired_coin |-> assets.out_unit,
     minimum_receive |-> assets.out_quantity,
     batcher_fee |-> BatcherFee, deposit |-> Deposit]

\* lines 183-186: the lovelace of the output to the order address
TotalCoin(assets) ==
    BatcherFee + Deposit
        + (IF assets.in_unit = "lovelace" THEN assets.in_quantity ELSE 0)

\* lines 192-201: the loop over in_assets.items() takes each entry other than
\* "lovelace" as (policy, dict of asset names), while the entry is (unit, quantity):
\* the body fails on the first such entry (the 34-byte unit is no ScriptHash, an
\* int has no items()), so only an in_assets without tokens gets through.
TokenLoopRaises(assets) == assets.in_unit # "lovelace"

\* _run up to line 212 for a request whose configuration checks passed
ComposeOrder(req) ==
    LET assets == PrepareAssets(req)
    IN  IF assets = None THEN [error |-> "unsupported token", order |-> None]
        ELSE IF TokenLoopRaises(assets)
        THEN [error |-> "exception", order |-> None]
        ELSE [error |-> "",
              order |-> [address |-> "order_script",
                         amount |-> Value(TotalCoin(assets), 0),
                         datum |-> CreateDatum(assets)]]

Run(p) ==
    /\ pc[p] = "idle"
    /\ \E req \in Requests :
        /\ args' = [args EXCEPT ![p] = req]
        /\ IF env.project_id = "" \/ env.mnemonic = ""
           THEN /\ result' = [result EXCEPT ![p] = [kind |-> "error", why |-> "configuration"]]
                /\ pc' = [pc EXCEPT ![p] = "done"]
                /\ order' = order
           ELSE IF env.network # "preprod"
           THEN /\ result' = [result EXCEPT ![p] = [kind |-> "error", why |-> "network"]]
                /\ pc' = [pc EXCEPT ![p] = "done"]
                /\ order' = order
           ELSE IF env.mnemonic # "words"
           THEN \* HDWallet.from_mnemonic raises inside the try block
                /\ result' = [result EXCEPT ![p] = [kind |-> "error", why |-> "exception"]]
                /\ pc' = [pc EXCEPT ![p] = "done"]
                /\ order' = order
           ELSE LET c == ComposeOrder(req)
                IN  IF c.error # ""
                    THEN /\ result' = [result EXCEPT ![p] = [kind |-> "error", why |-> c.error]]
                         /\ pc' = [pc EXCEPT ![p] = "done"]
                         /\ order' = order
                    ELSE /\ order' = [order EXCEPT ![p] = c.order]
                         /\ pc' = [pc EXCEPT ![p] = "build"]
                         /\ result' = result
    /\ UNCHANGED <<env, utxos, next_id, ledger, quote, tx, submits>>
    /\ UNCHANGED <<agentVars, telegramVars>>

-----------------------------------------------------------------------------
(* Line 215, builder.build_and_sign: pycardano's TransactionBuilder takes  *)
(* the inputs from the outputs listed at the wallet address until they     *)
(* cover the outputs, the fee and a change output of at least the chain's  *)
(* minimum; what is left goes to the change address.  The builder of line  *)
(* 178 has the default selectors: random-improve first, and largest        *)
(* lovelace first when random-improve raises.                              *)

\* sorted(utxos, key=lovelace): ascending and stable
RECURSIVE InsertByCoin(_, _)
InsertByCoin(u, s) ==
    IF s = <<>> THEN <<u>>
    ELSE IF Last(s).amount.coin <= u.amount.coin THEN Append(s, u)
    ELSE Append(InsertByCoin(u, Front(s)), Last(s))

RECURSIVE SortByCoin(_)
SortByCoin(s) ==
    IF s = <<>> THEN <<>> ELSE InsertByCoin(Last(s), SortByCoin(Front(s)))

\* a selection loop that reports success when the outputs run out
RECURSIVE SelectLoopNoRaise(_, _, _)
SelectLoopNoRaise(available, requested, selected) ==
    IF VLeq(requested, SumValues(selected)) \/ available = <<>>
    THEN [ok |-> TRUE, selected |-> selected, available |-> available]
    ELSE SelectLoopNoRaise(Front(available), requested, Append(selected, Last(available)))

\* the selection loop: pop the largest until the request is covered
RECURSIVE SelectLoop(_, _, _)
SelectLoop(available, requested, selected) ==
    IF VLeq(requested, SumValues(selected))
    THEN [ok |-> TRUE, selected |-> selected, available |-> available]
    ELSE IF available = <<>>
    THEN [ok |-> FALSE, selected |-> selected, available |-> available]
    ELSE SelectLoop(Front(available), requested, Append(selected, Last(available)))

\* a pass for the change minimum that draws from the whole pool again
ChangePoolWhole(pool, remaining) == pool

\* the outputs the pass for the change minimum may still draw from
ChangePool(pool, remaining) == remaining

\* a selection that stops at the outputs and the fee and lets any change through
LargestFirstAnyChange(pool, requested) == SelectLoop(SortByCoin(pool), requested, <<>>)

\* LargestFirstSelector.select with the change minimum respected
LargestFirst(pool, requested) ==
    LET first == SelectLoop(SortByCoin(pool), requested, <<>>)
        change == VSub(SumValues(first.selected), requested)
    IN  IF ~first.ok THEN first
        ELSE IF change.coin >= MinLovelace THEN first
        ELSE LET more == SelectLoop(ChangePool(SortByCoin(pool), first.available),
                                    Value(MinLovelace - change.coin, 0), <<>>)
             IN  [ok |-> more.ok,
                  selected |-> first.selected \o more.selected,
                  available |-> more.available]

Abs(n) == IF n < 0 THEN 0 - n ELSE n

\* the orders in which random picks can take the outputs of a pool
PickOrders(pool) ==
    IF pool = <<>> THEN {<<>>}
    ELSE {[i \in 1..Len(pool) |-> pool[f[i]]] : f \in Permutations(1..Len(pool))}

\* RandomImproveMultiAsset, phase 1: random picks until the request is covered
RECURSIVE RandomSelectSubset(_, _, _)
RandomSelectSubset(remaining, requested, selected) ==
    IF VLeq(requested, SumValues(selected))
    THEN [ok |-> TRUE, selected |-> selected, available |-> remaining]
    ELSE IF remaining = <<>>
    THEN [ok |-> FALSE, selected |-> selected, available |-> remaining]
    ELSE RandomSelectSubset(Tail(remaining), requested, Append(selected, Head(remaining)))

\* RandomImproveMultiAsset, phase 2: a picked output is kept when it brings the
\* selection closer to the ideal without passing the upper bound, and is gone
\* from the remaining ones either way
RECURSIVE Improve(_, _, _, _)
Improve(selected, remaining, ideal, upper_bound) ==
    LET have == SumValues(selected).coin
    IN  IF remaining = <<>> \/ ideal - have <= 0
        THEN [ok |-> TRUE, selected |-> selected, available |-> remaining]
        ELSE LET with == have + Head(remaining).amount.coin
             IN  IF Abs(ideal - with) < Abs(ideal - have) /\ upper_bound - with >= 0
                 THEN Improve(Append(selected, Head(remaining)), Tail(remaining),
                              ideal, upper_bound)
                 ELSE Improve(selected, Tail(remaining), ideal, upper_bound)

\* the two phases, for picks taken in the order given
RandomImproveOnce(picks, requested) ==
    LET first == RandomSelectSubset(picks, requested, <<>>)
    IN  IF ~first.ok THEN first
        ELSE Improve(first.selected, first.available,
                     2 * requested.coin, 3 * requested.coin)

\* RandomImproveMultiAsset.select with the change minimum respected
RandomImprove(picks, requested) ==
    LET first == RandomImproveOnce(picks, requested)
        change == VSub(SumValues(first.selected), requested)
    IN  IF ~first.ok THEN first
        ELSE IF change.coin >= MinLovelace THEN first
        ELSE LET more == RandomImproveOnce(first.available,
                                           Value(MinLovelace - change.coin, 0))
             IN  [ok |-> more.ok,
                  selected |-> first.selected \o more.selected,
                  available |-> more.available]

\* the builder's selectors in their default order: the random one first, and
\* largest-first when the random one raises
SelectInputs(picks, pool, requested) ==
    LET random == RandomImprove(picks, requested)
    IN  IF random.ok THEN random ELSE LargestFirst(pool, requested)

\* a change that returns the lovelace and keeps no tokens
ChangeOfCoinOnly(selected, locked, fee) ==
    Value(SumValues(selected).coin - locked.coin - fee, 0)

\* what goes to the change address
ChangeOf(selected, locked, fee) == VSub(VSub(SumValues(selected), locked), Value(fee, 0))

\* the signed transaction, or None when the builder raises
BuildTx(picks, pool, ord, fee) ==
    LET sel == SelectInputs(picks, pool, VAdd(ord.amount, Value(fee, 0)))
    IN  IF ~sel.ok THEN None
        ELSE [inputs |-> sel.selected,
              outputs |-> << ord,
                             [address |-> "wallet",
                              amount |-> ChangeOf(sel.selected, ord.amount, fee),
                              datum |-> None] >>,
              fee |-> fee]

BuildAndSign(p) ==
    /\ pc[p] = "build"
    /\ \E fee \in FeeSet, picks \in PickOrders(utxos) :
        LET t == BuildTx(picks, utxos, order[p], fee)
        IN  IF t = None
            THEN /\ result' = [result EXCEPT ![p] = [kind |-> "error", why |-> "exception"]]
                 /\ pc' = [pc EXCEPT ![p] = "done"]
                 /\ tx' = tx
            ELSE /\ tx' = [tx EXCEPT ![p] = t]
                 /\ pc' = [pc EXCEPT ![p] = "submit"]
                 /\ result' = result
    /\ UNCHANGED <<env, utxos, next_id, ledger, quote, args, order, submits>>
    /\ UNCHANGED <<agentVars, telegramVars>>

-----------------------------------------------------------------------------
(* Line 216, context.submit_tx, and the return of line 218 or 222.  The    *)
(* chain accepts a transaction when every input is still unspent; it then  *)
(* spends the inputs and creates the outputs.  The call may also fail      *)
(* before the chain sees the transaction.                                  *)

Unspent(t) == Ids(t.inputs) \subseteq Ids(utxos)

RECURSIVE Without(_, _)
Without(s, ids) ==
    IF s = <<>> THEN <<>>
    ELSE IF Head(s).id \in ids THEN Without(Tail(s), ids)
    ELSE <<Head(s)>> \o Without(Tail(s), ids)

\* a handler of the submit error that goes back to submit_tx
PcAfterSubmitErrorRetry == "submit"

\* lines 220-222: the except clause returns the error text
PcAfterSubmitError == "done"

SubmitTx(p) ==
    /\ pc[p] = "submit"
    /\ submits' = [submits EXCEPT ![p] = @ + 1]
    /\ \E delivered \in BOOLEAN :
        IF delivered /\ Unspent(tx[p])
        THEN /\ utxos' = Append(Without(utxos, Ids(tx[p].inputs)),
                                [id |-> next_id, amount |-> tx[p].outputs[2].amount])
             /\ next_id' = next_id + 1
             /\ ledger' = Append(ledger, tx[p])
             /\ result' = [result EXCEPT ![p] = [kind |-> "submitted", why |-> ""]]
             /\ pc' = [pc EXCEPT ![p] = "done"]
        ELSE /\ result' = [result EXCEPT ![p] = [kind |-> "error", why |-> "exception"]]
             /\ pc' = [pc EXCEPT ![p] = PcAfterSubmitError]
             /\ UNCHANGED <<utxos, next_id, ledger>>
    /\ UNCHANGED <<env, quote, args, order, tx>>
    /\ UNCHANGED <<agentVars, telegramVars>>

-----------------------------------------------------------------------------
(* The tools of tools.py *)

TelegramIdle ==
    /\ bot_token = ""
    /\ chat_ids = <<>>
    /\ k_pc = "idle"
    /\ k_text = None
    /\ k_summary = None
    /\ k_index = 0
    /\ k_results = <<>>
    /\ k_posts = <<>>
    /\ k_outcome = None

AgentIdle ==
    /\ a_text = <<>>
    /\ a_payload = None
    /\ a_resp = None
    /\ a_result = None

Init ==
    /\ env \in Envs
    /\ utxos \in Wallets
    /\ next_id = MaxUtxos + 1
    /\ ledger = <<>>
    /\ quote = NoQuote
    /\ pc = [p \in Procs |-> "idle"]
    /\ args = [p \in Procs |-> None]
    /\ order = [p \in Procs |-> None]
    /\ tx = [p \in Procs |-> None]
    /\ result = [p \in Procs |-> None]
    /\ submits = [p \in Procs |-> 0]
    /\ AgentIdle
    /\ TelegramIdle

Next ==
    \/ GetSwapQuote
    \/ \E p \in Procs : Run(p)
    \/ \E p \in Procs : BuildAndSign(p)
    \/ \E p \in Procs : SubmitTx(p)

Spec == Init /\ [][Next]_vars

-----------------------------------------------------------------------------
(* agents/swap_agent: parse_amount_and_slippage.  A text is a sequence of  *)
(* tokens with white space between them: a number, the words the regular   *)
(* expressions and the keyword tests look for, or any other word.          *)

\* most tokens in a text
MaxTextLen == 3

Num(v) == [k |-> "num", v |-> v]

Word(k) == [k |-> k, v |-> 0]

TextNumbers == {0, Whole(10), 12345678, Whole(200)}

Tokens ==
    {Num(v) : v \in TextNumbers}
        \cup {Word(k) : k \in {"ada", "lovelace", "%", "slippage", "fast", "safe", "word"}}

Texts == UNION {[1..n -> Tokens] : n \in 0..MaxTextLen}

\* re.search: the leftmost place where a token of kind a is followed by one of kind
\* b, 0 when there is none
RECURSIVE SearchPair(_, _, _, _)
SearchPair(text, a, b, i) ==
    IF i >= Len(text) THEN 0
    ELSE IF text[i].k \in a /\ text[i + 1].k \in b THEN i
    ELSE SearchPair(text, a, b, i + 1)

\* re.search(r"(\d+(?:\.\d+)?)", text): the leftmost number, 0 when there is none
RECURSIVE SearchNum(_, _)
SearchNum(text, i) ==
    IF i > Len(text) THEN 0
    ELSE IF text[i].k = "num" THEN i
    ELSE SearchNum(text, i + 1)

HasWord(text, k) == \E i \in 1..Len(text) : text[i].k = k

\* lines 20-27: "slippage" and then a number, or else a number and then "%"
ParseSlippage(text) ==
    LET m1 == SearchPair(text, {"slippage"}, {"num"}, 1)
        m2 == SearchPair(text, {"num"}, {"%"}, 1)
    IN  IF m1 # 0 THEN text[m1 + 1] ELSE IF m2 # 0 THEN text[m2] ELSE None

\* lines 29-45: a number and then "ada" or "lovelace", or else the first number of
\* the text, or else 5.0
ParseAdaAmount(text) ==
    LET m == SearchPair(text, {"num"}, {"ada", "lovelace"}, 1)
        n == SearchNum(text, 1)
    IN  IF m # 0 THEN text[m].v ELSE IF n # 0 THEN text[n].v ELSE Whole(5)

\* lines 47-55
SlippagePercent(text) ==
    LET slippage == ParseSlippage(text)
    IN  IF slippage # None THEN IntOfRound(slippage.v)
        ELSE IF HasWord(text, "fast") THEN 30
        ELSE IF HasWord(text, "safe") THEN 50
        ELSE 10

\* line 56
AmountInLovelace(ada_amount) == IntOfRoundMillionTimes(ada_amount)

parse_amount_and_slippage(text) ==
    [amount_in_lovelace |-> AmountInLovelace(ParseAdaAmount(text)),
     slippage_percent |-> SlippagePercent(text)]

-----------------------------------------------------------------------------
(* agents/swap_agent: swap_ada_to_min *)

\* what httpx.post may give: an exception, or a response with a status code and a
\* body that is JSON with the key unsignedTx, other JSON, or no JSON
Responses ==
    {[kind |-> "exception", status_code |-> 0, body |-> ""]}
        \cup [kind : {"response"}, status_code : {200, 400},
              body : {"unsignedTx", "json", "text"}]

\* lines 78-95: the payload is built from the parsed text and posted
PostSwap ==
    /\ a_payload = None
    /\ \E text \in Texts :
        LET parsed == parse_amount_and_slippage(text)
        IN  /\ a_text' = text
            /\ a_payload' = [assetIn |-> "lovelace", assetOut |-> "MIN",
                             amountIn |-> parsed.amount_in_lovelace,
                             slippagePercent |-> parsed.slippage_percent]
    /\ UNCHANGED <<a_resp, a_result>>
    /\ UNCHANGED <<toolVars, telegramVars>>

\* lines 96-106: resp_json['unsignedTx'] raises KeyError for a body without the key,
\* which the outer except turns into an error result
SwapResult(resp) ==
    IF resp.kind = "exception" \/ resp.body # "unsignedTx"
    THEN [status |-> "error", error |-> "exception"]
    ELSE [status |-> IF resp.status_code < 400 THEN "ok" ELSE "error",
          response |-> "unsignedTx"]

ReceiveSwap ==
    /\ a_payload # None
    /\ a_result = None
    /\ \E resp \in Responses :
        /\ a_resp' = resp
        /\ a_result' = SwapResult(resp)
    /\ UNCHANGED <<a_text, a_payload>>
    /\ UNCHANGED <<toolVars, telegramVars>>

ToolsIdle ==
    /\ env = [project_id |-> "", mnemonic |-> "", network |-> "preprod"]
    /\ utxos = <<>>
    /\ next_id = 1
    /\ ledger = <<>>
    /\ quote = NoQuote
    /\ pc = [p \in Procs |-> "idle"]
    /\ args = [p \in Procs |-> None]
    /\ order = [p \in Procs |-> None]
    /\ tx = [p \in Procs |-> None]
    /\ result = [p \in Procs |-> None]
    /\ submits = [p \in Procs |-> 0]

InitAgent == ToolsIdle /\ AgentIdle /\ TelegramIdle

NextAgent == PostSwap \/ ReceiveSwap

SpecAgent == InitAgent /\ [][NextAgent]_vars

-----------------------------------------------------------------------------
(* agents/telegram_bot_agent: TelegramBotAgent and CrewShim.kickoff.  A    *)
(* text is the sequence of its sentences, each with the score that         *)
(* score_sentence gives it, and the number of its characters; a summary is *)
(* the sequence of the sentences kept, by their position in the text.      *)

MaxChats == 2

MaxSentences == 4

\* line 40: max_sentences
max_sentences == 3

ChatIds == {"c1", "c2"}

ChatLists == UNION {[1..n -> ChatIds] : n \in 0..MaxChats}

Scores == {1, 2}

\* the inputs of kickoff: no text, the empty string, blanks only, or sentences
KickoffTexts ==
    {None, [chars |-> 0, sentences |-> <<>>], [chars |-> 1, sentences |-> <<>>]}
        \cup {[chars |-> n, sentences |-> ss] :
                n \in {1}, ss \in UNION {[1..k -> Scores] : k \in 1..MaxSentences}}

\* lines 70-72: the place of sentence i after the stable sort by score, highest
\* first
RankOf(sentences, i) ==
    1 + Cardinality({j \in 1..Len(sentences) :
                        \/ sentences[j] > sentences[i]
                        \/ sentences[j] = sentences[i] /\ j < i})

RECURSIVE KeepTop(_, _)
KeepTop(sentences, i) ==
    IF i > Len(sentences) THEN <<>>
    ELSE (IF RankOf(sentences, i) <= max_sentences THEN <<i>> ELSE <<>>)
            \o KeepTop(sentences, i + 1)

\* lines 40-75: the top sentences, in the order of the text
summarize(text) == KeepTop(text.sentences, 1)

\* what httpx.post and resp.json() may give for one chat
PostResults == {"200 json", "200 no json", "403", "exception"}

\* lines 95-105: the entry of results for one chat
Entry(resp) ==
    IF resp = "200 json" THEN [ok |-> TRUE, why |-> "message_id"]
    ELSE IF resp = "403" THEN [ok |-> FALSE, why |-> "status_code"]
    ELSE [ok |-> FALSE, why |-> "error"]

\* results[cid] = entry
Put(results, cid, entry) ==
    [c \in DOMAIN results \cup {cid} |-> IF c = cid THEN entry ELSE results[c]]

\* a loop that gives up at the first exception
AfterSendStopOnException(i, resp) ==
    IF resp \in {"exception", "200 no json"} THEN Len(chat_ids) + 1 ELSE i + 1

\* lines 92-105: the except clause is inside the loop, which goes on to the next
\* chat whatever the call gave
AfterSend(i, resp) == i + 1

\* lines 122-139 up to the first httpx.post
Kickoff ==
    /\ k_pc = "idle"
    /\ \E text \in KickoffTexts :
        /\ k_text' = text
        /\ IF text = None \/ text.chars = 0
           THEN /\ k_outcome' = [raised |-> "ValueError"]
                /\ k_pc' = "done"
                /\ UNCHANGED <<k_summary, k_index>>
           ELSE /\ k_summary' = summarize(text)
                /\ IF chat_ids = <<>>
                   THEN /\ k_outcome' = [summary |-> summarize(text), sent |-> <<>>]
                        /\ k_pc' = "done"
                        /\ k_index' = k_index
                   ELSE IF bot_token = ""
                   THEN /\ k_outcome' = [raised |-> "RuntimeError"]
                        /\ k_pc' = "done"
                        /\ k_index' = k_index
                   ELSE /\ k_outcome' = k_outcome
                        /\ k_pc' = "sending"
                        /\ k_index' = 1
    /\ UNCHANGED <<bot_token, chat_ids, k_results, k_posts>>
    /\ UNCHANGED <<toolVars, agentVars>>

\* lines 92-107 and 133-139: one turn of the loop, and the return after the last
SendOne ==
    /\ k_pc = "sending"
    /\ \E resp \in PostResults :
        LET cid == chat_ids[k_index]
            results == Put(k_results, cid, Entry(resp))
            next == AfterSend(k_index, resp)
        IN  /\ k_posts' = Append(k_posts, [chat_id |-> cid, text |-> k_summary,
                                           resp |-> resp])
            /\ k_results' = results
            /\ k_index' = next
            /\ IF next > Len(chat_ids)
               THEN /\ k_outcome' = [summary |-> k_summary, sent |-> results]
                    /\ k_pc' = "done"
               ELSE UNCHANGED <<k_outcome, k_pc>>
    /\ UNCHANGED <<bot_token, chat_ids, k_text, k_summary>>
    /\ UNCHANGED <<toolVars, agentVars>>

InitTelegram ==
    /\ ToolsIdle
    /\ AgentIdle
    /\ bot_token \in {"", "token"}
    /\ chat_ids \in ChatLists
    /\ k_pc = "idle"
    /\ k_text = None
    /\ k_summary = None
    /\ k_index = 0
    /\ k_results = <<>>
    /\ k_posts = <<>>
    /\ k_outcome = None

NextTelegram == Kickoff \/ SendOne

SpecTelegram == InitTelegram /\ [][NextTelegram]_vars

-----------------------------------------------------------------------------
(* Properties of MinswapSwapTool._run (specification Spec)                 *)

Built(p) == tx[p] # None

Submitted(p) == result[p] # None /\ result[p].kind = "submitted"

Failed(p) == result[p] # None /\ result[p].kind = "error"

EnvOk == env.project_id # "" /\ env.mnemonic = "words" /\ env.network = "preprod"

SupportedTokens == {"ADA", "MIN"}

\* an intent the validation of the specification lets through
ValidIntent(req) ==
    /\ req # None
    /\ req.from_token \in SupportedTokens
    /\ req.to_token \in SupportedTokens
    /\ req.from_token # req.to_token
    /\ req.amount > 0
    /\ req.slippage \in 0..100

OutputsAndFee(t) ==
    VAdd(VAdd(t.outputs[1].amount, t.outputs[2].amount), Value(t.fee, 0))

LockedValueClaimed(req) ==
    IF req.from_token = "ADA"
    THEN Value(IntOfMillionTimes(req.amount) + BatcherFee + Deposit, 0)
    ELSE Value(BatcherFee + Deposit, IntOfMillionTimes(req.amount))

\* C2: for a base-asset swap and for a token swap alike, the output locked at the
\* order address holds the input amount in atomic units plus the batcher fee plus
\* the deposit.
C2_LockedOutputValue ==
    \A p \in Procs :
        (EnvOk /\ pc[p] # "idle" /\ ValidIntent(args[p])) =>
            /\ order[p] # None
            /\ order[p].amount = LockedValueClaimed(args[p])

\* floor(expected_out * (1 - slippage_percent / 100))
SlippageFloor(expected_out, slippage_percent) ==
    (expected_out * (100 - slippage_percent)) \div 100

\* C3: the minimum output written into the order datum is
\* floor(expected_out * (1 - slippage_percent / 100)) of the quoted output, for a
\* slippage between 0 and 100.
C3_SlippageFloor ==
    \A p \in Procs :
        (order[p] # None /\ quote.status = "ok" /\ ValidIntent(args[p])) =>
            order[p].datum.minimum_receive = SlippageFloor(quote.result, args[p].slippage)

\* C4: without a quote of the expected output no datum is encoded and no
\* transaction is built or submitted, also for an intent that is valid.
C4_NoQuoteNoTransaction ==
    quote.status # "ok" =>
        \A p \in Procs :
            (pc[p] # "idle" /\ ValidIntent(args[p])) =>
                order[p] = None /\ ~Built(p) /\ ~Submitted(p)

InvalidPair(req) ==
    \/ req.from_token = req.to_token
    \/ req.from_token \notin SupportedTokens
    \/ req.to_token \notin SupportedTokens

\* C5: a request whose two assets are the same, or one of whose assets is not
\* supported, is rejected before any later stage: no datum, no transaction, no
\* submission.
C5_InvalidPairRejected ==
    \A p \in Procs :
        (pc[p] # "idle" /\ InvalidPair(args[p])) =>
            order[p] = None /\ ~Built(p) /\ ~Submitted(p)

\* the step of invocation p that is the call of build_and_sign
BuildStep(p) == pc[p] = "build" /\ pc'[p] # "build"

MaxFee == CHOOSE f \in FeeSet : \A g \in FeeSet : g <= f

RECURSIVE SumDistinct(_, _)
SumDistinct(s, seen) ==
    IF s = <<>> THEN ZeroValue
    ELSE IF Head(s).id \in seen THEN SumDistinct(Tail(s), seen)
    ELSE VAdd(Head(s).amount, SumDistinct(Tail(s), seen \cup {Head(s).id}))

C10_NoOverlappingSelections ==
    \A p, q \in Procs :
        (p # q /\ pc[p] = "submit" /\ pc[q] = "submit"
              /\ ValidIntent(args[p]) /\ ValidIntent(args[q])) =>
            Ids(tx[p].inputs) \cap Ids(tx[q].inputs) = {}

-----------------------------------------------------------------------------
(* Properties of swap_ada_to_min (specification SpecAgent)                 *)

\* C6: every intent that reaches the swap request has an amount above 0 and a
\* slippage percentage between 0 and 100.
C6_ForwardedIntentInRange ==
    a_payload # None =>
        /\ a_payload.amountIn > 0
        /\ a_payload.slippagePercent \in 0..100

\* C7: the amount is converted to atomic units by rounding down: the lovelace sent
\* is floor(amount * 1,000,000) of the amount read from the text.
C7_ConversionRoundsDown ==
    a_payload # None =>
        a_payload.amountIn = IntOfMillionTimes(ParseAdaAmount(a_text))

-----------------------------------------------------------------------------
(* Later properties of MinswapSwapTool._run (specification Spec)           *)

RECURSIVE Occurrences(_, _)
Occurrences(s, x) ==
    IF s = <<>> THEN 0
    ELSE (IF Head(s) = x THEN 1 ELSE 0) + Occurrences(Tail(s), x)

\* C11: a submission failure is reported and not retried.  An invocation calls
\* submit_tx at most once; once the call was made the invocation has ended, with
\* the transaction id or with an error; and after an error its transaction is not
\* on the chain unless the other invocation put the same transaction there.
C11_SubmitOnceNoRetry ==
    \A p \in Procs :
        /\ submits[p] <= 1
        /\ submits[p] = 1 => pc[p] = "done" /\ (Submitted(p) \/ Failed(p))
        /\ pc[p] = "submit" => submits[p] = 0
        /\ Built(p) => Occurrences(ledger, tx[p]) <= 1
        /\ (submits[p] = 1 /\ Failed(p)) =>
                \/ Occurrences(ledger, tx[p]) = 0
                \/ \E q \in Procs \ {p} : Submitted(q) /\ tx[q] = tx[p]

\* C11 witness: a valid swap whose submit_tx failed and that ended with an error
C11_Witness ==
    \E p \in Procs :
        /\ ValidIntent(args[p])
        /\ Built(p)
        /\ submits[p] = 1
        /\ pc[p] = "done"
        /\ Failed(p)
        /\ Occurrences(ledger, tx[p]) = 0

\* a request that one of the three checks of _run turns down
Rejected(req) ==
    \/ env.project_id = "" \/ env.mnemonic = ""
    \/ env.network # "preprod"
    \/ req.from_token \notin SupportedTokens

\* C16: nothing happens for a rejected request.  When the project id or the
\* mnemonic is missing, the network is not preprod or from_token is neither ADA
\* nor MIN, the invocation ends with an error and has no order, no transaction
\* and no call of submit_tx; submit_tx is called only for a request that passed
\* the three checks; and a transaction id is returned only when submit_tx was
\* called and put the transaction on the chain.
C16_RejectedDoesNothing ==
    \A p \in Procs :
        /\ (args[p] # None /\ Rejected(args[p])) =>
                /\ pc[p] = "done" /\ Failed(p)
                /\ order[p] = None /\ ~Built(p) /\ submits[p] = 0
        /\ (Built(p) \/ submits[p] > 0) => ~Rejected(args[p])
        /\ Submitted(p) =>
                /\ Built(p) /\ submits[p] = 1
                /\ Occurrences(ledger, tx[p]) = 1

\* C16 witness: one invocation turned down for its token, the other submitted
C16_Witness ==
    \E p, q \in Procs :
        /\ args[p] # None /\ args[p].from_token \notin SupportedTokens
        /\ pc[p] = "done" /\ result[p] = [kind |-> "error", why |-> "unsupported token"]
        /\ Submitted(q) /\ ValidIntent(args[q])

MinFee == CHOOSE f \in FeeSet : \A g \in FeeSet : f <= g

C14_Determinism ==
    \A p, q \in Procs :
        ( /\ pc[p] = "submit" /\ pc[q] = "submit"
          /\ ledger = <<>>
          /\ args[p] = args[q]
          /\ ValidIntent(args[p])
          /\ tx[p].fee = tx[q].fee )
        => /\ Ids(tx[p].inputs) = Ids(tx[q].inputs)
           /\ tx[p].outputs = tx[q].outputs

-----------------------------------------------------------------------------
(* Later properties of swap_ada_to_min (specification SpecAgent)            *)

\* C12: the result of swap_ada_to_min is all-or-nothing.  A result with status
\* "ok" holds the service's unsignedTx, and a result with status "error" holds no
\* transaction payload under "response".
C12_AllOrNothing ==
    a_result # None =>
        /\ a_result.status = "ok" =>
                "response" \in DOMAIN a_result /\ a_result.response = "unsignedTx"
        /\ a_result.status = "error" => "response" \notin DOMAIN a_result

\* a number that the text attaches to "ada" or "lovelace"
AttachedToAda(text, i) ==
    /\ text[i].k = "num"
    /\ i < Len(text) /\ text[i + 1].k \in {"ada", "lovelace"}

\* a number that the text attaches to the percent sign or to the word "slippage"
AttachedToSlippage(text, i) ==
    /\ text[i].k = "num"
    /\ ~AttachedToAda(text, i)
    /\ \/ i < Len(text) /\ text[i + 1].k = "%"
       \/ i > 1 /\ text[i - 1].k = "slippage"

\* the numbers the text holds for the amount: those attached to "ada" or, when
\* there is none, those attached to nothing
AmountNumbers(text) ==
    LET ada == {i \in 1..Len(text) : AttachedToAda(text, i)}
        bare == {i \in 1..Len(text) : text[i].k = "num" /\ ~AttachedToSlippage(text, i)}
    IN  {text[i].v : i \in IF ada # {} THEN ada ELSE bare}

\* the numbers the text holds for the slippage
SlippageNumbers(text) ==
    {text[i].v : i \in {j \in 1..Len(text) : AttachedToSlippage(text, j)}}

\* C15: each number goes to its field.  The amount sent is a number the text holds
\* for the amount, in lovelace, or 5 ADA when it holds none; the slippage sent is a
\* number the text holds for the slippage, or the keyword value or 10 when it
\* holds none.
C15_NumbersAttributed ==
    a_payload # None =>
        /\ a_payload.amountIn \in
                IF AmountNumbers(a_text) # {}
                THEN {IntOfRoundMillionTimes(v) : v \in AmountNumbers(a_text)}
                ELSE {IntOfRoundMillionTimes(Whole(5))}
        /\ a_payload.slippagePercent \in
                IF SlippageNumbers(a_text) # {}
                THEN {IntOfRound(v) : v \in SlippageNumbers(a_text)}
                ELSE {IF HasWord(a_text, "fast") THEN 30
                      ELSE IF HasWord(a_text, "safe") THEN 50 ELSE 10}

-----------------------------------------------------------------------------
(* Properties of the telegram agent (specification SpecTelegram)            *)

Range(s) == {s[i] : i \in 1..Len(s)}

\* what the last call for a chat gave
LastPostTo(cid) ==
    LET last == CHOOSE i \in 1..Len(k_posts) :
                    /\ k_posts[i].chat_id = cid
                    /\ \A j \in (i + 1)..Len(k_posts) : k_posts[j].chat_id # cid
    IN  k_posts[last].resp

Returned == k_pc = "done" /\ "sent" \in DOMAIN k_outcome

Raised(what) == k_pc = "done" /\ k_outcome = [raised |-> what]

\* C17: failures are kept to their chat.  With a token, what send_summary returns
\* has one entry for each distinct chat id of the list, ok only when the call for
\* that chat gave status 200, and every chat of the list got its call with the
\* summary, whatever the calls before it gave.  Without a token no call is made
\* and a RuntimeError is raised.  kickoff calls send_summary only when the agent
\* has a chat id, and for a missing or empty text it raises ValueError with no
\* summary made and no call.
C17_PerChatIsolation ==
    /\ Returned =>
            /\ DOMAIN k_outcome.sent = Range(chat_ids)
            /\ Len(k_posts) = Len(chat_ids)
            /\ \A i \in 1..Len(chat_ids) :
                    k_posts[i].chat_id = chat_ids[i] /\ k_posts[i].text = k_summary
            /\ \A cid \in Range(chat_ids) :
                    k_outcome.sent[cid].ok => LastPostTo(cid) \in {"200 json", "200 no json"}
            /\ k_outcome.summary = summarize(k_text)
            /\ chat_ids # <<>> => bot_token # ""
    /\ k_pc = "sending" =>
            /\ bot_token # ""
            /\ Len(k_posts) = k_index - 1
            /\ k_index <= Len(chat_ids)
    /\ bot_token = "" => k_posts = <<>>
    /\ chat_ids = <<>> => k_posts = <<>> /\ k_pc # "sending"
    /\ (k_pc = "done" /\ (k_text = None \/ k_text.chars = 0)) =>
            Raised("ValueError") /\ k_summary = None /\ k_posts = <<>>
    /\ Raised("ValueError") => (k_text = None \/ k_text.chars = 0)
    /\ Raised("RuntimeError") => bot_token = "" /\ chat_ids # <<>> /\ k_posts = <<>>

\* C17 witness: two chats, the call for the first raised, the call for the second
\* gave 200, and both have their entry
C17_Witness ==
    /\ Returned
    /\ chat_ids = <<"c1", "c2">>
    /\ k_posts[1].resp = "exception" /\ k_posts[2].resp = "200 json"
    /\ ~k_outcome.sent["c1"].ok
    /\ k_outcome.sent["c2"].ok
    /\ Len(k_text.sentences) > max_sentences

====
